---- MODULE Spec2Model ----
(***************************************************************************)
(* Tufty 2040 badge (src/tufty-cpp/main.cpp): the slideshow / name badge / *)
(* Game of Life control loop of main(), the Game of Life engine with its   *)
(* change mask, the image catalog and the fallback pattern generator.      *)
(*                                                                         *)
(* The frame buffer is modelled at a finite set of probe pixels (Probes).  *)
(* Every drawing primitive writes a pixel without reading any other, so    *)
(* the value of a probe pixel in the model is its value in the program.    *)
(***************************************************************************)
EXTENDS Integers, Sequences, FiniteSets, TLC

(***************************************************************************)
(* Bounds of the model.  The grid, the number of seeded dots, the number  *)
(* of generations of one run and the two dwell times are the program's     *)
(* LIFE_X = 106, LIFE_Y = 80, INITIAL_DOTS = 2000, LIFE_FRAMES = 500,      *)
(* display_time = 15000 and the badge's 60000, scaled down; MaxRounds caps *)
(* the number of slideshow entries of one session.                         *)
(***************************************************************************)
LIFE_X == 5
LIFE_Y == 5
INITIAL_DOTS == 5
LIFE_FRAMES == 5
DISPLAY_TIME == 300
BADGE_TIME == 500
MaxRounds == 2

(***************************************************************************)
(* Program constants.                                                      *)
(***************************************************************************)
LIFE_SIZE == 3
MAX_IMAGES == 200
NAME_CHARS == 31
PATTERN_COUNT == 72
STYLE_COUNT == 6
POLL_MS == 100
DEBOUNCE_MS == 200
SENTINEL == 255
HEIGHT == 240

Dead == 0
Alive == 1
JustDied == 2

(***************************************************************************)
(* uint32_t rand_seed, kept as <<high 16 bits, low 16 bits>> so that the   *)
(* product of fast_rand wraps modulo 2^32 exactly as in the program.       *)
(* 1103515245 = 16838 * 2^16 + 20077.                                      *)
(***************************************************************************)
HALF == 65536
LCG_MUL_HI == 16838
LCG_MUL_LO == 20077
LCG_INC == 12345
RAND_MASK == 32768

\* rand_seed = rand_seed * 1103515245 + 12345   (mod 2^32)
NextSeed(s) ==
    LET p == s[2] * LCG_MUL_LO + LCG_INC
    IN  << ((p \div HALF) + ((s[1] * LCG_MUL_LO) % HALF)
                          + ((s[2] * LCG_MUL_HI) % HALF)) % HALF,
           p % HALF >>

\* return (rand_seed >> 16) & 0x7FFF, read from the advanced seed
RandValue(s) == s[1] % RAND_MASK

\* the values millis() is read as when it seeds the generator
ClockReadings == { <<0, 5038>>, <<32768, 7837>> }

(***************************************************************************)
(* Image catalog.  A file name is a sequence of one-character strings; a   *)
(* directory entry is [name, type] as pico_dir_read fills struct lfs_info. *)
(***************************************************************************)
Upper == <<"A","B","C","D","E","F","G","H","I","J","K","L","M",
           "N","O","P","Q","R","S","T","U","V","W","X","Y","Z">>
Lower == <<"a","b","c","d","e","f","g","h","i","j","k","l","m",
           "n","o","p","q","r","s","t","u","v","w","x","y","z">>

\* tolower, as strcasecmp applies it to each character
ToLower(c) ==
    IF \E i \in 1..26 : Upper[i] = c
    THEN Lower[CHOOSE i \in 1..26 : Upper[i] = c]
    ELSE c

\* strcasecmp(a, b) == 0
StrCaseEq(a, b) ==
    /\ Len(a) = Len(b)
    /\ \A i \in 1..Len(a) : ToLower(a[i]) = ToLower(b[i])

DotPng == <<".","p","n","g">>
BadgeName == <<"t","u","f","t","y","-","n","a","m","e",".","p","n","g">>

\* &info.name[len-4]
Tail4(name) == SubSeq(name, Len(name) - 3, Len(name))

\* the tests of the scan loop body that let an entry through to the list
Accepted(info) ==
    /\ info.name # << >>
    /\ info.name[1] # "."
    /\ info.type # "DIR"
    /\ Len(info.name) >= 5
    /\ StrCaseEq(Tail4(info.name), DotPng)
    /\ ~ StrCaseEq(info.name, BadgeName)

\* strncpy(image_list[count], info.name, 31); image_list[count][31] = '\0'
StoredName(name) ==
    IF Len(name) > NAME_CHARS THEN SubSeq(name, 1, NAME_CHARS) ELSE name

\* the while loop of scan_images over the entries pico_dir_read returns
RECURSIVE ScanLoop(_, _, _)
ScanLoop(listing, i, list) ==
    IF i > Len(listing) \/ Len(list) >= MAX_IMAGES
    THEN list
    ELSE IF Accepted(listing[i])
         THEN ScanLoop(listing, i + 1, Append(list, StoredName(listing[i].name)))
         ELSE ScanLoop(listing, i + 1, list)

\* scan_images: dir_ok is FALSE when pico_dir_open("pics") fails
scan_images(dir_ok, listing) ==
    IF ~ dir_ok THEN << >> ELSE ScanLoop(listing, 1, << >>)

File(n) == [name |-> n, type |-> "REG"]
Folder(n) == [name |-> n, type |-> "DIR"]
DotEntries == << Folder(<<".">>), Folder(<<".",".">>) >>

\* the directory contents a session may find at boot
Listings ==
    { DotEntries,
      DotEntries \o << File(BadgeName) >>,
      DotEntries \o << File(<<"a",".","p","n","g">>) >>,
      DotEntries \o << File(<<"a",".","p","n","g">>), File(BadgeName),
                       File(<<"b",".","P","N","G">>) >>,
      DotEntries \o << File(<<"a",".","p","n","g">>),
                       Folder(<<"o","l","d",".","p","n","g">>),
                       File(<<"b",".","P","N","G">>),
                       File(<<"n","o","t","e",".","t","x","t">>),
                       File(<<"c","a","t",".","p","n","g">>) >> }

(***************************************************************************)
(* Frame buffer.  A pen is <<r, g, b>>; a pixel decoded from a PNG file is *)
(* the opaque value PngPixel(n), n the catalog index of the file (-1 for   *)
(* pics/tufty-name.png).  A surface maps each probe pixel <<x, y>> to the  *)
(* pen last written there.                                                 *)
(***************************************************************************)
WHITE == <<255, 255, 255>>
BLACK == <<0, 0, 0>>
RED == <<255, 0, 0>>
PngPixel(n) == <<-1, n, 0>>

Cells == 0 .. (LIFE_X * LIFE_Y - 1)
CellX(i) == i \div LIFE_Y
CellY(i) == i % LIFE_Y
CellPixel(i) == << CellX(i) * LIFE_SIZE, CellY(i) * LIFE_SIZE >>

Probes == { CellPixel(i) : i \in Cells } \cup { <<315, 120>>, <<319, 239>> }

\* graphics.clear() with the current pen
Clear(pen) == [p \in Probes |-> pen]

\* graphics.rectangle(Rect(x, y, w, h)) with the current pen
Rectangle(fb, x, y, w, h, pen) ==
    [p \in Probes |->
        IF p[1] >= x /\ p[1] < x + w /\ p[2] >= y /\ p[2] < y + h
        THEN pen ELSE fb[p]]

\* graphics.circle(Point(cx, cy), r) with the current pen: a filled disc
Circle(fb, cx, cy, r, pen) ==
    [p \in Probes |->
        IF (p[1] - cx) * (p[1] - cx) + (p[2] - cy) * (p[2] - cy) <= r * r
        THEN pen ELSE fb[p]]

\* png_draw_callback over the rows 0 .. rows-1 the decoder delivered
DecodeRows(fb, n, rows) ==
    [p \in Probes |-> IF p[2] < rows /\ p[2] < HEIGHT THEN PngPixel(n) ELSE fb[p]]

(***************************************************************************)
(* Game of Life engine.  A grid maps the index x * LIFE_Y + y to a cell    *)
(* state; lifegrid is the pair of grids, change_mask the parallel mask.    *)
(***************************************************************************)
Interior(i) ==
    /\ CellX(i) >= 1 /\ CellX(i) < LIFE_X - 1
    /\ CellY(i) >= 1 /\ CellY(i) < LIFE_Y - 1

Border(i) == i \in Cells /\ ~ Interior(i)

\* the eight indices idx_up-1 .. idx_down+1 read around idx_curr
NeighbourIdx(i) ==
    { i - LIFE_Y - 1, i - LIFE_Y, i - LIFE_Y + 1, i - 1, i + 1,
      i + LIFE_Y - 1, i + LIFE_Y, i + LIFE_Y + 1 }

\* a neighbour count that takes JustDied for alive
NeighborsNonZero(grid_now, i) ==
    Cardinality({ j \in NeighbourIdx(i) : grid_now[j] # 0 })

\* int neighbors: the neighbours whose value == 1
Neighbors(grid_now, i) == Cardinality({ j \in NeighbourIdx(i) : grid_now[j] = 1 })

\* a rule under which a JustDied cell without 3 neighbours stays JustDied
NextCellKeepsMarker(grid_now, i) ==
    LET neighbors == Neighbors(grid_now, i)
    IN  IF grid_now[i] = 1
        THEN (IF neighbors >= 2 /\ neighbors <= 3 THEN 1 ELSE 2)
        ELSE (IF neighbors = 3 THEN 1 ELSE grid_now[i])

\* a rule under which an Alive cell dies to Dead at once
NextCellDiesAtOnce(grid_now, i) ==
    LET neighbors == Neighbors(grid_now, i)
    IN  IF grid_now[i] = 1
        THEN (IF neighbors >= 2 /\ neighbors <= 3 THEN 1 ELSE 0)
        ELSE (IF neighbors = 3 THEN 1 ELSE 0)

\* the value written to grid_next[idx_curr]
NextCell(grid_now, i) ==
    LET neighbors == Neighbors(grid_now, i)
    IN  IF grid_now[i] = 1
        THEN (IF neighbors >= 2 /\ neighbors <= 3 THEN 1 ELSE 2)
        ELSE (IF neighbors = 3 THEN 1 ELSE 0)

\* calculate_generation: the new contents of grid_next
calculate_generation(grid_now, grid_next) ==
    [i \in Cells |-> IF Interior(i) THEN NextCell(grid_now, i) ELSE grid_next[i]]

\* mark_changes writing the old state of a changed cell
MarkOldState(grid_now, grid_next) ==
    [i \in Cells |-> IF grid_now[i] # grid_next[i] THEN grid_now[i] ELSE SENTINEL]

\* mark_changes: the new contents of change_mask
mark_changes(grid_now, grid_next) ==
    [i \in Cells |-> IF grid_now[i] # grid_next[i] THEN grid_next[i] ELSE SENTINEL]

\* the pen draw_changes / draw_full_life_grid select for a cell value
CellPen(val) == IF val = 1 THEN WHITE ELSE IF val = 2 THEN RED ELSE BLACK

\* the cell whose LIFE_SIZE square Rect(x*3, y*3, 3, 3) holds pixel p
InGrid(p) == p[1] \div LIFE_SIZE < LIFE_X /\ p[2] \div LIFE_SIZE < LIFE_Y
CellAt(p) == (p[1] \div LIFE_SIZE) * LIFE_Y + (p[2] \div LIFE_SIZE)

\* the cells draw_changes paints: those whose mask is not 255
Redrawn(mask) == { i \in Cells : mask[i] # SENTINEL }

\* a partial redraw that paints every cell from its mask value
DrawEveryCell(fb, mask) ==
    [p \in Probes |-> IF InGrid(p) THEN CellPen(mask[CellAt(p)]) ELSE fb[p]]

\* draw_changes: one LIFE_SIZE square per cell whose mask is not 255
draw_changes(fb, mask) ==
    [p \in Probes |->
        IF InGrid(p) /\ mask[CellAt(p)] # SENTINEL
        THEN CellPen(mask[CellAt(p)])
        ELSE fb[p]]

\* draw_full_life_grid: clear to BLACK, then a square per Alive / JustDied cell
draw_full_life_grid(grid) ==
    [p \in Probes |->
        IF InGrid(p) /\ grid[CellAt(p)] \in {1, 2}
        THEN CellPen(grid[CellAt(p)])
        ELSE BLACK]

ZeroGrid == [i \in Cells |-> 0]

\* a seeding loop that draws its coordinates over the whole grid
RECURSIVE SeedDotsAnywhere(_, _, _)
SeedDotsAnywhere(grid, seed, n) ==
    IF n = 0
    THEN << grid, seed >>
    ELSE LET s1 == NextSeed(seed)
             x  == RandValue(s1) % LIFE_X
             s2 == NextSeed(s1)
             y  == RandValue(s2) % LIFE_Y
         IN  SeedDotsAnywhere([grid EXCEPT ![x * LIFE_Y + y] = 1], s2, n - 1)

\* the seeding loop of init_life_grid: <<grid, rand_seed>> after n more dots
RECURSIVE SeedDots(_, _, _)
SeedDots(grid, seed, n) ==
    IF n = 0
    THEN << grid, seed >>
    ELSE LET s1 == NextSeed(seed)
             x  == 1 + (RandValue(s1) % (LIFE_X - 2))
             s2 == NextSeed(s1)
             y  == 1 + (RandValue(s2) % (LIFE_Y - 2))
         IN  SeedDots([grid EXCEPT ![x * LIFE_Y + y] = 1], s2, n - 1)

\* init_life_grid with millis() read as clock: <<lifegrid[0], rand_seed>>
init_life_grid(clock) == SeedDots(ZeroGrid, clock, INITIAL_DOTS)

(***************************************************************************)
(* PNG loading.  The decoder and the file system are outside the program:  *)
(* an outcome says whether png.open and png.decode succeeded and how many  *)
(* rows reached png_draw_callback before the end or the failure.           *)
(***************************************************************************)
LoadOutcomes ==
    { [ok |-> TRUE, rows |-> 240], [ok |-> FALSE, rows |-> 0],
      [ok |-> FALSE, rows |-> 120] }

\* load_png: <<return value, frame buffer>>
load_png(mounted, fb, n, outcome) ==
    IF ~ mounted
    THEN << FALSE, fb >>
    ELSE << outcome.ok, DecodeRows(fb, n, outcome.rows) >>

(***************************************************************************)
(* draw_pattern.  graphics.text writes glyph pixels only inside the text   *)
(* line that starts at Point(10, 220); no probe pixel lies there.          *)
(***************************************************************************)
\* case 0: one 320 x 1 rectangle per row y
Gradient(fb, k) ==
    [p \in Probes |->
        LET r == (p[2] * 255) \div 240
        IN  << r, ((k * 37) + p[2]) % 255, 255 - r >>]

\* case 1: clear, then the eight circles i = from .. 7 in drawing order
RECURSIVE Circles(_, _, _)
Circles(fb, k, i) ==
    IF i > 7
    THEN fb
    ELSE Circles(Circle(fb, 40 + (i % 4) * 80, 60 + (i \div 4) * 120, 30 + (i * 5),
                        << (i * 30 + k * 20) % 255, (100 + i * 20) % 255,
                           (200 - i * 15) % 255 >>),
                 k, i + 1)

\* case 2: a 16 x 16 rectangle at (x+2, y+2) in every 20 x 20 tile
Grid(fb, k) ==
    [p \in Probes |->
        LET x == (p[1] \div 20) * 20
            y == (p[2] \div 20) * 20
        IN  IF /\ p[1] >= x + 2 /\ p[1] < x + 18
               /\ p[2] >= y + 2 /\ p[2] < y + 18
            THEN << ((x * y) \div 100 + k * 10) % 255, (x + k * 5) % 255,
                    (y + k * 7) % 255 >>
            ELSE fb[p]]

\* case 3: an 8 x 240 rectangle per stripe
Stripes(fb, k) ==
    [p \in Probes |->
        LET x == (p[1] \div 8) * 8
        IN  << ((x \div 8) * 17 + k * 30) % 255, (128 + k * 5) % 255,
               (200 - (x \div 8) * 5) % 255 >>]

\* case 4: the circles ring = 120, 112, .. 8 around (160, 120), largest first
RECURSIVE Radial(_, _, _)
Radial(fb, k, ring) ==
    IF ring <= 0
    THEN fb
    ELSE Radial(Circle(fb, 160, 120, ring,
                       << (ring * 2 + k * 20) % 255, (255 - ring * 2 + k * 10) % 255,
                          (128 + k * 15) % 255 >>),
                k, ring - 8)

\* case 5: a 32 x 32 rectangle per tile
Checkerboard(fb, k) ==
    [p \in Probes |->
        IF ((p[1] \div 32) + (p[2] \div 32)) % 2 = 0
        THEN << (200 + k * 3) % 255, (180 + k * 7) % 255, (160 + k * 11) % 255 >>
        ELSE << (50 + k * 5) % 255, (30 + k * 9) % 255, (80 + k * 13) % 255 >>]

\* draw_pattern(pattern_num) on the frame buffer fb
draw_pattern(fb, pattern_num) ==
    LET style == pattern_num % STYLE_COUNT
    IN  CASE style = 0 -> Gradient(fb, pattern_num)
          [] style = 1 -> Circles(Clear(<<20, 20, 60>>), pattern_num, 0)
          [] style = 2 -> Grid(fb, pattern_num)
          [] style = 3 -> Stripes(fb, pattern_num)
          [] style = 4 -> Radial(fb, pattern_num, 120)
          [] OTHER     -> Checkerboard(fb, pattern_num)

(***************************************************************************)
(* draw_name_badge: the PNG when it loads, the drawn badge otherwise.  The *)
(* badge's text lines start at x >= 70 and lie left of x = 310; no probe   *)
(* pixel lies in them.                                                     *)
(***************************************************************************)
DrawnBadge ==
    Rectangle(
        Rectangle(
            Rectangle(Clear(<<20, 40, 100>>), 0, 0, 320, 60, WHITE),
            10, 70, 300, 120, WHITE),
        0, 195, 320, 45, <<200, 50, 50>>)

draw_name_badge(mounted, fb, outcome) ==
    IF mounted /\ load_png(mounted, fb, -1, outcome)[1]
    THEN load_png(mounted, fb, -1, outcome)[2]
    ELSE DrawnBadge

(***************************************************************************)
(* State.                                                                  *)
(*   pc            where main() is: "boot" (before the mount), "show"      *)
(*                 (top of the main loop), "dwell" (slideshow poll loop),  *)
(*                 "badge" (badge poll loop), "life" (loop of              *)
(*                 run_game_of_life), "pick" (after the poll loop)         *)
(*   elapsed       millis() - start_time in "dwell", millis() -            *)
(*                 badge_start in "badge" (start_time is not read again    *)
(*                 once the badge loop is entered); 0 outside the two      *)
(*                 poll loops, where neither is read                       *)
(*   fnow          run_game_of_life's fnow; fnext is always 1 - fnow       *)
(*   lifegrid      <<lifegrid[0], lifegrid[1]>>                            *)
(*   fb, panel     graphics.frame_buffer and what st7789.update last sent  *)
(* History variables, not program state:                                   *)
(*   buttons       levels <<A, B, C>> of the lines at the last sampling    *)
(*                 since the slide was put up                              *)
(*   last_exit     how the poll loop of this slide was left, if it was     *)
(*   cool          ms slept since the last button-triggered transition,    *)
(*                 saturating at DEBOUNCE_MS                               *)
(*   tried         whether the last slideshow entry called load_png        *)
(*   rounds        slideshow entries so far                                *)
(*   dir_entries   the entries pico_dir_read returned to scan_images       *)
(*   redrawn       the cells the last Game of Life draw call painted       *)
(***************************************************************************)
VARIABLES pc, fs_mounted, image_count, image_list, image_index, rand_seed,
          loaded, elapsed, frames, fnow, lifegrid, change_mask, fb, panel,
          buttons, last_exit, cool, tried, rounds, dir_entries, redrawn

vars == << pc, fs_mounted, image_count, image_list, image_index, rand_seed,
           loaded, elapsed, frames, fnow, lifegrid, change_mask, fb, panel,
           buttons, last_exit, cool, tried, rounds, dir_entries, redrawn >>

catalog  == << fs_mounted, image_count, image_list, dir_entries >>
life     == << frames, fnow, lifegrid, change_mask, redrawn >>
surface  == << fb, panel >>

NoButtons == << FALSE, FALSE, FALSE >>
Levels == BOOLEAN \X BOOLEAN \X BOOLEAN

Min(a, b) == IF a < b THEN a ELSE b

\* sleep_ms(ms) as it adds to the time since the last transition
Slept(c, ms) == Min(c + ms, DEBOUNCE_MS)

\* the globals as initialised, main() having drawn its boot screen
Init ==
    /\ pc = "boot"
    /\ fs_mounted = FALSE
    /\ image_count = 0
    /\ image_list = << >>
    /\ image_index = 0
    /\ rand_seed = << 0, 12345 >>
    /\ loaded = FALSE
    /\ elapsed = 0
    /\ frames = 0
    /\ fnow = 0
    /\ lifegrid = << ZeroGrid, ZeroGrid >>
    /\ change_mask = ZeroGrid
    /\ fb = Clear(BLACK)
    /\ panel = Clear(BLACK)
    /\ buttons = NoButtons
    /\ last_exit = "none"
    /\ cool = DEBOUNCE_MS
    /\ tried = FALSE
    /\ rounds = 0
    /\ dir_entries = << >>
    /\ redrawn = {}

\* main(), from pico_mount to "int image_index = 0"
Boot(mount_ok, dir_ok, listing, clock) ==
    /\ pc = "boot"
    /\ fs_mounted' = mount_ok
    /\ image_list' = IF mount_ok THEN scan_images(dir_ok, listing) ELSE << >>
    /\ dir_entries' = IF mount_ok /\ dir_ok THEN listing ELSE << >>
    /\ image_count' = Len(image_list')
    /\ rand_seed' = clock
    /\ image_index' = 0
    /\ fb' = Clear(BLACK)
    /\ panel' = fb'
    /\ pc' = "show"
    /\ UNCHANGED << loaded, elapsed, life, buttons, last_exit, cool, tried, rounds >>

\* a test that forgets image_count > 0
TriesImageWhenMounted(mounted, count) == mounted

\* whether the main loop calls load_png for the slide
TriesImage(mounted, count) == mounted /\ count > 0

\* a slide that is left as the failed load left it
SlideContentNoFallback(mounted, count, buf, index, outcome) ==
    IF mounted /\ count > 0
    THEN load_png(mounted, buf, index, outcome)
    ELSE << FALSE, buf >>

\* the main loop from "bool loaded = false" to the draw: <<loaded, frame buffer>>
SlideContent(mounted, count, buf, index, outcome) ==
    LET res == IF TriesImage(mounted, count)
               THEN load_png(mounted, buf, index, outcome)
               ELSE << FALSE, buf >>
    IN  IF res[1] THEN res ELSE << FALSE, draw_pattern(res[2], index) >>

\* top of the main loop: load or draw, present, start_time = millis()
Show(outcome) ==
    /\ pc = "show"
    /\ LET res == SlideContent(fs_mounted, image_count, fb, image_index, outcome)
       IN  /\ loaded' = res[1]
           /\ fb' = res[2]
    /\ panel' = fb'
    /\ tried' = TriesImage(fs_mounted, image_count)
    /\ elapsed' = 0
    /\ rounds' = rounds + 1
    /\ buttons' = NoButtons
    /\ last_exit' = "none"
    /\ pc' = "dwell"
    /\ UNCHANGED << catalog, image_index, rand_seed, life, cool >>

\* an entry that seeds on top of what the buffers hold
EnterLifeOnTop(clock) ==
    LET init == SeedDots(lifegrid[1], clock, INITIAL_DOTS)
    IN  /\ lifegrid' = << init[1], lifegrid[2] >>
        /\ rand_seed' = init[2]
        /\ frames' = 0
        /\ fnow' = 0
        /\ fb' = draw_full_life_grid(init[1])
        /\ panel' = fb'
        /\ redrawn' = Cells
        /\ UNCHANGED change_mask

\* run_game_of_life up to its while loop, millis() read as clock
EnterLife(clock) ==
    LET init == init_life_grid(clock)
    IN  /\ lifegrid' = << init[1], ZeroGrid >>
        /\ rand_seed' = init[2]
        /\ frames' = 0
        /\ fnow' = 0
        /\ fb' = draw_full_life_grid(init[1])
        /\ panel' = fb'
        /\ redrawn' = Cells
        /\ UNCHANGED change_mask

\* a poll loop that tests button C first, then B, then A
DwellPollCFirst(levels) ==
    /\ pc = "dwell"
    /\ elapsed < DISPLAY_TIME
    /\ buttons' = levels
    /\ IF levels[3]
       THEN /\ \E clock \in ClockReadings : EnterLife(clock)
            /\ pc' = "life"
            /\ cool' = DEBOUNCE_MS
            /\ elapsed' = 0
            /\ UNCHANGED last_exit
       ELSE IF levels[2]
       THEN /\ \E outcome \in LoadOutcomes :
                   fb' = draw_name_badge(fs_mounted, fb, outcome)
            /\ panel' = fb'
            /\ elapsed' = 0
            /\ pc' = "badge"
            /\ cool' = 0
            /\ UNCHANGED << rand_seed, life, last_exit >>
       ELSE IF levels[1]
       THEN /\ pc' = "pick"
            /\ last_exit' = "A"
            /\ cool' = DEBOUNCE_MS
            /\ elapsed' = 0
            /\ UNCHANGED << rand_seed, life, surface >>
       ELSE /\ elapsed' = elapsed + POLL_MS
            /\ cool' = Slept(cool, POLL_MS)
            /\ UNCHANGED << pc, rand_seed, life, surface, last_exit >>
    /\ UNCHANGED << catalog, image_index, loaded, tried, rounds >>

\* one pass of the slideshow poll loop
DwellPoll(levels) ==
    /\ pc = "dwell"
    /\ elapsed < DISPLAY_TIME
    /\ buttons' = levels
    /\ IF levels[1]
       THEN /\ pc' = "pick"
            /\ last_exit' = "A"
            /\ cool' = DEBOUNCE_MS
            /\ elapsed' = 0
            /\ UNCHANGED << rand_seed, life, surface >>
       ELSE IF levels[2]
       THEN /\ \E outcome \in LoadOutcomes :
                   fb' = draw_name_badge(fs_mounted, fb, outcome)
            /\ panel' = fb'
            /\ elapsed' = 0
            /\ pc' = "badge"
            /\ cool' = 0
            /\ UNCHANGED << rand_seed, life, last_exit >>
       ELSE IF levels[3]
       THEN /\ \E clock \in ClockReadings : EnterLife(clock)
            /\ pc' = "life"
            /\ cool' = DEBOUNCE_MS
            /\ elapsed' = 0
            /\ UNCHANGED last_exit
       ELSE /\ elapsed' = elapsed + POLL_MS
            /\ cool' = Slept(cool, POLL_MS)
            /\ UNCHANGED << pc, rand_seed, life, surface, last_exit >>
    /\ UNCHANGED << catalog, image_index, loaded, tried, rounds >>

\* a dwell time-out that puts the same slide up again
DwellTimeoutNoPick ==
    /\ pc = "dwell"
    /\ elapsed >= DISPLAY_TIME
    /\ pc' = "show"
    /\ last_exit' = "timeout"
    /\ elapsed' = 0
    /\ UNCHANGED << catalog, image_index, rand_seed, loaded, life, surface,
                    buttons, cool, tried, rounds >>

\* the slideshow poll loop's condition fails: the dwell time is over
DwellTimeout ==
    /\ pc = "dwell"
    /\ elapsed >= DISPLAY_TIME
    /\ pc' = "pick"
    /\ last_exit' = "timeout"
    /\ elapsed' = 0
    /\ UNCHANGED << catalog, image_index, rand_seed, loaded, life, surface,
                    buttons, cool, tried, rounds >>

\* one pass of the badge poll loop
BadgePoll(levels) ==
    /\ pc = "badge"
    /\ elapsed < BADGE_TIME
    /\ buttons' = levels
    /\ IF levels[1] \/ levels[2] \/ levels[3]
       THEN /\ pc' = "pick"
            /\ last_exit' = "badge"
            /\ cool' = DEBOUNCE_MS
            /\ elapsed' = 0
       ELSE /\ elapsed' = elapsed + POLL_MS
            /\ cool' = Slept(cool, POLL_MS)
            /\ UNCHANGED << pc, last_exit >>
    /\ UNCHANGED << catalog, image_index, rand_seed, loaded, life, surface,
                    tried, rounds >>

\* a badge time-out that falls back into the slideshow poll loop
BadgeTimeoutNoBreak ==
    /\ pc = "badge"
    /\ elapsed >= BADGE_TIME
    /\ pc' = "dwell"
    /\ elapsed' = 0
    /\ UNCHANGED << catalog, image_index, rand_seed, loaded, life, surface,
                    buttons, last_exit, cool, tried, rounds >>

\* the badge poll loop's condition fails: the badge time is over
BadgeTimeout ==
    /\ pc = "badge"
    /\ elapsed >= BADGE_TIME
    /\ pc' = "pick"
    /\ last_exit' = "badge"
    /\ elapsed' = 0
    /\ UNCHANGED << catalog, image_index, rand_seed, loaded, life, surface,
                    buttons, cool, tried, rounds >>

\* a pass of the loop that ends on any of the three buttons
LifeGenerationAnyButton(levels) ==
    /\ pc = "life"
    /\ frames < LIFE_FRAMES
    /\ LET grid_now == lifegrid[fnow + 1]
           next     == calculate_generation(grid_now, lifegrid[(1 - fnow) + 1])
           mask     == mark_changes(grid_now, next)
       IN  /\ lifegrid' = [lifegrid EXCEPT ![(1 - fnow) + 1] = next]
           /\ change_mask' = mask
           /\ fb' = draw_changes(fb, mask)
           /\ redrawn' = Redrawn(mask)
    /\ panel' = fb'
    /\ fnow' = 1 - fnow
    /\ frames' = frames + 1
    /\ buttons' = levels
    /\ IF levels[1] \/ levels[2] \/ levels[3]
       THEN /\ pc' = "pick"
            /\ last_exit' = "life"
            /\ cool' = DEBOUNCE_MS
       ELSE UNCHANGED << pc, last_exit, cool >>
    /\ UNCHANGED << catalog, image_index, rand_seed, loaded, elapsed, tried, rounds >>

\* a pass of the loop that samples button C before it computes anything
LifeGenerationSampleFirst(levels) ==
    /\ pc = "life"
    /\ frames < LIFE_FRAMES
    /\ buttons' = levels
    /\ IF levels[3]
       THEN /\ pc' = "pick"
            /\ last_exit' = "life"
            /\ cool' = DEBOUNCE_MS
            /\ UNCHANGED << life, surface >>
       ELSE /\ LET grid_now == lifegrid[fnow + 1]
                   next     == calculate_generation(grid_now, lifegrid[(1 - fnow) + 1])
                   mask     == mark_changes(grid_now, next)
               IN  /\ lifegrid' = [lifegrid EXCEPT ![(1 - fnow) + 1] = next]
                   /\ change_mask' = mask
                   /\ fb' = draw_changes(fb, mask)
                   /\ redrawn' = Redrawn(mask)
            /\ panel' = fb'
            /\ fnow' = 1 - fnow
            /\ frames' = frames + 1
            /\ UNCHANGED << pc, last_exit, cool >>
    /\ UNCHANGED << catalog, image_index, rand_seed, loaded, elapsed, tried, rounds >>

\* one pass of the while loop of run_game_of_life
LifeGeneration(levels) ==
    /\ pc = "life"
    /\ frames < LIFE_FRAMES
    /\ LET grid_now == lifegrid[fnow + 1]
           next     == calculate_generation(grid_now, lifegrid[(1 - fnow) + 1])
           mask     == mark_changes(grid_now, next)
       IN  /\ lifegrid' = [lifegrid EXCEPT ![(1 - fnow) + 1] = next]
           /\ change_mask' = mask
           /\ fb' = draw_changes(fb, mask)
           /\ redrawn' = Redrawn(mask)
    /\ panel' = fb'
    /\ fnow' = 1 - fnow
    /\ frames' = frames + 1
    /\ buttons' = levels
    /\ IF levels[3]
       THEN /\ pc' = "pick"
            /\ last_exit' = "life"
            /\ cool' = DEBOUNCE_MS
       ELSE UNCHANGED << pc, last_exit, cool >>
    /\ UNCHANGED << catalog, image_index, rand_seed, loaded, elapsed, tried, rounds >>

\* a loop of run_game_of_life that starts its count again at the budget
LifeRunsOn ==
    /\ pc = "life"
    /\ frames >= LIFE_FRAMES
    /\ frames' = 0
    /\ UNCHANGED << pc, catalog, image_index, rand_seed, loaded, elapsed, fnow,
                    lifegrid, change_mask, redrawn, surface, buttons, last_exit,
                    cool, tried, rounds >>

\* the while condition of run_game_of_life fails: LIFE_FRAMES generations done
LifeDone ==
    /\ pc = "life"
    /\ frames >= LIFE_FRAMES
    /\ pc' = "pick"
    /\ last_exit' = "life"
    /\ UNCHANGED << catalog, image_index, rand_seed, loaded, elapsed, life,
                    surface, buttons, cool, tried, rounds >>

\* a draw that leaves the seed as it was
DrawIndexSameSeed(seed, count) == << RandValue(seed) % count, seed >>

\* a draw that is not reduced modulo the count
DrawIndexUnreduced(seed, count) ==
    LET s == NextSeed(seed) IN << RandValue(s), s >>

\* one draw of the do-while loop: <<new_index, rand_seed>>
DrawIndex(seed, count) ==
    LET s == NextSeed(seed) IN << RandValue(s) % count, s >>

\* a loop that takes its first draw
NeverRejected(new_index, index) == FALSE

\* whether the do-while loop goes round again
Rejected(new_index, index) == new_index = index

\* "Pick random next image", image_count > 1: one pass of the do-while loop
PickOther ==
    /\ pc = "pick"
    /\ rounds < MaxRounds
    /\ image_count > 1
    /\ LET draw == DrawIndex(rand_seed, image_count)
       IN  /\ rand_seed' = draw[2]
           /\ IF Rejected(draw[1], image_index)
              THEN UNCHANGED << pc, image_index >>
              ELSE /\ image_index' = draw[1]
                   /\ pc' = "show"
    /\ UNCHANGED << catalog, loaded, elapsed, life, surface, buttons, last_exit,
                    cool, tried, rounds >>

\* image_count == 0: image_index = fast_rand() % 72
PickPattern ==
    /\ pc = "pick"
    /\ rounds < MaxRounds
    /\ image_count = 0
    /\ LET draw == DrawIndex(rand_seed, PATTERN_COUNT)
       IN  /\ rand_seed' = draw[2]
           /\ image_index' = draw[1]
    /\ pc' = "show"
    /\ UNCHANGED << catalog, loaded, elapsed, life, surface, buttons, last_exit,
                    cool, tried, rounds >>

\* image_count == 1: neither branch, the index stays
PickSame ==
    /\ pc = "pick"
    /\ rounds < MaxRounds
    /\ image_count = 1
    /\ pc' = "show"
    /\ UNCHANGED << catalog, image_index, rand_seed, loaded, elapsed, life,
                    surface, buttons, last_exit, cool, tried, rounds >>

Next ==
    \/ \E m \in BOOLEAN, d \in BOOLEAN, l \in Listings, c \in ClockReadings :
          Boot(m, d, l, c)
    \/ \E o \in LoadOutcomes : Show(o)
    \/ \E b \in Levels : DwellPoll(b)
    \/ DwellTimeout
    \/ \E b \in Levels : BadgePoll(b)
    \/ BadgeTimeout
    \/ \E b \in Levels : LifeGeneration(b)
    \/ LifeDone
    \/ PickOther
    \/ PickPattern
    \/ PickSame

Spec == Init /\ [][Next]_vars

(***************************************************************************)
(* Properties.                                                             *)
(***************************************************************************)
\* the buffer the last generation wrote and the buffer it read
NextBuffer == lifegrid[fnow + 1]
CurrentBuffer == lifegrid[(1 - fnow) + 1]

BorderCells == { i \in Cells : Border(i) }
InteriorCells == { i \in Cells : Interior(i) }

\* C1, as stated: with a catalog of 3 and index 0, when GameOfLife has ended
\* (second press of C, or LIFE_FRAMES generations) the slideshow is entered
\* again with the index it had before GameOfLife was entered.
C1_IndexUnchangedAfterLife ==
    [][ (pc = "pick" /\ last_exit = "life" /\ image_count = 3 /\ image_index = 0
            /\ pc' = "show")
        => image_index' = image_index ]_vars

\* C1, amended: with a catalog of 3, a press of C alone enters GameOfLife
\* with the index kept; GameOfLife is left only on a press of C or after
\* LIFE_FRAMES generations, the index still kept; and the slideshow is then
\* entered again with a newly picked index, a valid catalog index different
\* from the one before GameOfLife was entered.
C1_LifeRoundTripPicksNewIndex ==
    [][ /\ (pc = "dwell" /\ elapsed < DISPLAY_TIME /\ buttons' = << FALSE, FALSE, TRUE >>)
            => (pc' = "life" /\ frames' = 0 /\ image_index' = image_index)
        /\ (pc = "life" /\ pc' = "life") => image_index' = image_index
        /\ (pc = "life" /\ pc' # "life")
            => /\ pc' = "pick"
               /\ last_exit' = "life"
               /\ image_index' = image_index
               /\ (buttons'[3] \/ frames >= LIFE_FRAMES)
        /\ (pc = "pick" /\ last_exit = "life" /\ image_count = 3)
            => \/ pc' = "pick" /\ image_index' = image_index
               \/ /\ pc' = "show"
                  /\ image_index' \in 0 .. 2
                  /\ image_index' # image_index
      ]_vars

\* C1 witness: the slideshow re-entered after a GameOfLife run that used up
\* its generations, catalog of 3, first slide's index 0 replaced.
C1_Witness ==
    /\ pc = "show" /\ last_exit = "life" /\ rounds = 1
    /\ image_count = 3 /\ image_index # 0
    /\ frames = LIFE_FRAMES /\ ~ buttons[3]

\* C2: mask soundness.  After mark_changes of any generation, at every cell
\* of the grid the mask is the sentinel exactly when the next buffer equals
\* the current buffer there, and is otherwise the next buffer's state.
C2_MaskSound ==
    frames > 0 =>
        \A i \in Cells :
            /\ (change_mask[i] = SENTINEL) <=> (NextBuffer[i] = CurrentBuffer[i])
            /\ change_mask[i] # SENTINEL => change_mask[i] = NextBuffer[i]

\* C2 witness: a generation that left cells unchanged, cells newly Alive and
\* cells newly JustDied.
C2_Witness ==
    /\ pc = "life" /\ frames > 0
    /\ \E i \in InteriorCells : change_mask[i] = SENTINEL
    /\ \E i \in Cells : change_mask[i] = Alive
    /\ \E i \in Cells : change_mask[i] = JustDied

Block(c) == ({c} \cup NeighbourIdx(c)) \cap InteriorCells

InitRule ==
    /\ pc = "life"
    /\ fs_mounted = FALSE
    /\ image_count = 0
    /\ image_list = << >>
    /\ image_index = 0
    /\ rand_seed = << 0, 12345 >>
    /\ loaded = FALSE
    /\ elapsed = 0
    /\ frames = 1
    /\ fnow = 1
    /\ \E c \in InteriorCells :
         \E f \in [Block(c) -> {Dead, Alive, JustDied}] :
            lifegrid = << ZeroGrid, [i \in Cells |-> IF i \in Block(c) THEN f[i] ELSE Dead] >>
    /\ change_mask = ZeroGrid
    /\ fb = draw_full_life_grid(lifegrid[2])
    /\ panel = fb
    /\ buttons = NoButtons
    /\ last_exit = "none"
    /\ cool = DEBOUNCE_MS
    /\ tried = FALSE
    /\ rounds = 1
    /\ dir_entries = << >>
    /\ redrawn = {}

RuleStep == frames = 1 /\ LifeGeneration(NoButtons)

NextRule == RuleStep

SpecRule == InitRule /\ [][NextRule]_vars

\* the Alive cells among the eight cells at distance one, by coordinates
AliveAround(grid, i) ==
    Cardinality({ d \in (-1 .. 1) \X (-1 .. 1) :
                    /\ d # << 0, 0 >>
                    /\ grid[(CellX(i) + d[1]) * LIFE_Y + (CellY(i) + d[2])] = Alive })

\* the rule table of the automaton
RuleTable(grid, i) ==
    IF grid[i] = Alive
    THEN (IF AliveAround(grid, i) \in {2, 3} THEN Alive ELSE JustDied)
    ELSE (IF AliveAround(grid, i) = 3 THEN Alive ELSE Dead)

\* C4: neighbour rule.  For every interior cell and every combination of
\* states of its eight neighbours, calculate_generation writes Alive for an
\* Alive cell with 2 or 3 Alive neighbours, JustDied for an Alive cell with
\* any other count, Alive for a Dead or JustDied cell with exactly 3 Alive
\* neighbours and Dead otherwise; a JustDied neighbour does not count.
C4_NeighbourRule ==
    (pc = "life" /\ frames = 2) =>
        \A i \in InteriorCells : NextBuffer[i] = RuleTable(CurrentBuffer, i)

\* C4 witness: a JustDied cell with a JustDied neighbour and three Alive
\* neighbours has become Alive.
C4_Witness ==
    /\ pc = "life" /\ frames = 2
    /\ \E i \in InteriorCells :
          /\ CurrentBuffer[i] = JustDied
          /\ NextBuffer[i] = Alive
          /\ \E j \in NeighbourIdx(i) : CurrentBuffer[j] = JustDied

\* C5: no-repeat rotation.  Whenever the next index is picked, with 2 or
\* more catalog entries the new index differs from the current one and
\* rejected draws leave the index alone; with exactly 1 entry the index
\* stays; with fewer than 2 entries the pick is a single step without the
\* rejection loop (no draw for 1 entry, the one pattern draw for none).
C5_NoRepeatRotation ==
    [][ pc = "pick" =>
          /\ image_count >= 2 =>
                \/ pc' = "pick" /\ image_index' = image_index
                \/ pc' = "show" /\ image_index' # image_index
                               /\ image_index' \in 0 .. (image_count - 1)
          /\ image_count = 1 =>
                pc' = "show" /\ image_index' = image_index /\ rand_seed' = rand_seed
          /\ image_count = 0 =>
                pc' = "show" /\ rand_seed' = NextSeed(rand_seed)
      ]_vars

\* C5 witness: a second slide of a catalog of 2, picked after button A.
C5_Witness ==
    /\ pc = "show" /\ rounds = 1 /\ last_exit = "A"
    /\ image_count = 2 /\ image_index = 1

\* C6: badge auto-return.  NameBadge is entered only from the slideshow
\* poll loop on a press of B (A not pressed); a poll that finds no button
\* pressed keeps the badge up; the badge is left only for the pick of the
\* next slide, either on a pressed button before the badge time is over or,
\* with no button, once it is over; and from there the slideshow is
\* entered, not the badge.
C6_BadgeAutoReturn ==
    [][ /\ (pc # "badge" /\ pc' = "badge")
            => (pc = "dwell" /\ buttons'[2] /\ ~ buttons'[1] /\ elapsed' = 0)
        /\ (pc = "badge" /\ elapsed < BADGE_TIME /\ buttons' = NoButtons)
            => (pc' = "badge" /\ elapsed' = elapsed + POLL_MS)
        /\ (pc = "badge" /\ pc' # "badge")
            => /\ pc' = "pick"
               /\ last_exit' = "badge"
               /\ \/ elapsed >= BADGE_TIME /\ buttons' = buttons
                  \/ elapsed < BADGE_TIME /\ buttons' # NoButtons
        /\ (pc = "pick" /\ last_exit = "badge") => pc' \in {"pick", "show"}
        /\ pc = "show" => pc' = "dwell"
      ]_vars

\* C6 witness: the badge left by its time-out, no button having been pressed.
C6_Witness ==
    pc = "pick" /\ last_exit = "badge" /\ buttons = NoButtons

(***************************************************************************)
(* draw_pattern on its own: one call for every pattern number, on a frame  *)
(* buffer that holds one of three earlier contents.                        *)
(***************************************************************************)
InitPattern ==
    /\ pc = "pattern"
    /\ fs_mounted = FALSE
    /\ image_count = 0
    /\ image_list = << >>
    /\ image_index \in 0 .. (PATTERN_COUNT - 1)
    /\ rand_seed = << 0, 12345 >>
    /\ loaded = FALSE
    /\ elapsed = 0
    /\ frames = 0
    /\ fnow = 0
    /\ lifegrid = << ZeroGrid, ZeroGrid >>
    /\ change_mask = ZeroGrid
    /\ fb \in { Clear(BLACK), Clear(WHITE), Clear(RED) }
    /\ panel = fb
    /\ buttons = NoButtons
    /\ last_exit = "none"
    /\ cool = DEBOUNCE_MS
    /\ tried = FALSE
    /\ rounds = 0
    /\ dir_entries = << >>
    /\ redrawn = {}

PatternCall ==
    /\ pc = "pattern"
    /\ fb' = draw_pattern(fb, image_index)
    /\ pc' = "drawn"
    /\ UNCHANGED << catalog, image_index, rand_seed, loaded, elapsed, life, panel,
                    buttons, last_exit, cool, tried, rounds >>

NextPattern == PatternCall

SpecPattern == InitPattern /\ [][NextPattern]_vars

\* C7: pattern determinism.  For every k in [0, 72) a call draw_pattern(k)
\* leaves every pixel as a call draw_pattern(k) on any other earlier
\* contents leaves it (here: on a black frame buffer).
C7_PatternDeterministic ==
    pc = "drawn" => fb = draw_pattern(Clear(BLACK), image_index)

\* C8: cooldown.  Whenever a poll is due, the sleep before its sampling of
\* the buttons ends no sooner than DEBOUNCE_MS after the last
\* button-triggered transition; the generation loop samples button C no
\* sooner than that either.
C8_CooldownBeforeSampling ==
    /\ (pc = "dwell" /\ elapsed < DISPLAY_TIME) => cool + POLL_MS >= DEBOUNCE_MS
    /\ (pc = "badge" /\ elapsed < BADGE_TIME) => cool + POLL_MS >= DEBOUNCE_MS
    /\ (pc = "life" /\ frames < LIFE_FRAMES) => cool >= DEBOUNCE_MS

\* C9: decode failure.  Every slideshow entry with a non-empty catalog calls
\* load_png for the current index, whatever the entry before did; when the
\* load fails the frame buffer holds the pattern of the current index at
\* every pixel that pattern draws, and it is presented; the catalog, its
\* count and the index are unchanged by the entry.
C9_DecodeFailureLocal ==
    [][ (pc = "show" /\ image_count > 0) =>
          /\ pc' = "dwell"
          /\ tried'
          /\ << fs_mounted', image_count', image_list' >> = << fs_mounted, image_count, image_list >>
          /\ image_index' = image_index
          /\ panel' = fb'
          /\ ~ loaded' => fb' = draw_pattern(fb', image_index)
      ]_vars

\* C9 witness: the second slide of a catalog of 3, its load failed after
\* rows had been decoded.
C9_Witness ==
    /\ pc = "dwell" /\ rounds = 2 /\ image_count = 3
    /\ tried /\ ~ loaded
    /\ \E p \in Probes : fb[p] = PngPixel(image_index)

\* C10: store unavailable or empty.  When the mount fails or the scan finds
\* no usable image the count is 0; from then on it stays 0, no slideshow
\* entry calls load_png, and every slideshow entry presents the pattern of
\* an index in [0, 72).
C10_EmptyStoreFallsBack ==
    [][ /\ (pc = "boot" /\ (~ fs_mounted' \/ image_list' = << >>)) => image_count' = 0
        /\ (pc # "boot" /\ image_count = 0)
            => /\ image_count' = 0
               /\ ~ tried'
               /\ ~ loaded'
               /\ image_index' \in 0 .. (PATTERN_COUNT - 1)
               /\ pc = "show" => /\ pc' = "dwell"
                                 /\ fb' = draw_pattern(fb', image_index)
                                 /\ panel' = fb'
      ]_vars

\* C10 witness: the second slide of a session whose mount failed.
C10_Witness ==
    /\ pc = "dwell" /\ rounds = 2 /\ ~ fs_mounted
    /\ image_count = 0 /\ image_index # 0

(***************************************************************************)
(* The session under fairness: main() is the only thread of control and    *)
(* every call it makes returns, so a step that is possible is taken.       *)
(***************************************************************************)
SpecLive == Spec /\ WF_vars(Next)

\* C11: GameOfLife always ends.  GameOfLife is entered with the generation
\* count 0; every pass of its loop computes one generation; the count never
\* exceeds LIFE_FRAMES; the pass after which button C is sampled pressed is
\* the last; when GameOfLife is left with C not sampled pressed the count is
\* exactly LIFE_FRAMES; it is left only for the pick of the next slide; and
\* once entered it is eventually left.
C11_LifeEnds ==
    /\ [][ /\ (pc # "life" /\ pc' = "life") => frames' = 0
           /\ pc = "life" =>
                /\ frames <= LIFE_FRAMES
                /\ frames' \in { frames, frames + 1 }
                /\ pc' \in { "life", "pick" }
                /\ pc' = "life" => (frames' = frames + 1 /\ ~ buttons'[3])
                /\ (frames' = frames + 1 /\ buttons'[3]) => pc' = "pick"
                /\ (pc' = "pick" /\ ~ buttons'[3]) =>
                       (frames = LIFE_FRAMES /\ frames' = LIFE_FRAMES)
                /\ pc' = "pick" => last_exit' = "life"
         ]_vars
    /\ (pc = "life" ~> pc = "pick")

\* C11 witness: GameOfLife left on a press of C after more than one and
\* fewer than LIFE_FRAMES generations, none of the earlier samples pressed.
C11_Witness ==
    /\ pc = "pick" /\ last_exit = "life" /\ buttons[3]
    /\ frames > 1 /\ frames < LIFE_FRAMES

\* C12: JustDied is transient.  After every generation, an interior cell
\* that is JustDied in the buffer the generation read is Dead or Alive, not
\* JustDied, in the buffer it wrote.
C12_JustDiedTransient ==
    frames > 0 =>
        \A i \in InteriorCells :
            CurrentBuffer[i] = JustDied => NextBuffer[i] \in { Dead, Alive }

\* C12 witness: a generation in which one JustDied cell became Alive and
\* another became Dead.
C12_Witness ==
    /\ pc = "life" /\ frames > 1
    /\ \E i \in InteriorCells : CurrentBuffer[i] = JustDied /\ NextBuffer[i] = Alive
    /\ \E i \in InteriorCells : CurrentBuffer[i] = JustDied /\ NextBuffer[i] = Dead

(***************************************************************************)
(* scan_images on its own: one call for every listing of at most           *)
(* MaxListing entries drawn from ScanEntries.                              *)
(***************************************************************************)
MaxListing == 3

\* a name longer than the 31 characters an image_list row keeps
LongName == <<"h","o","l","i","d","a","y","-","p","h","o","t","o","s","-","f","r","o","m","-","t","h","e","-","s","e","a","s","i","d","e","-","2","0","2","4",".","p","n","g">>

ScanEntries ==
    { File(<<"a",".","p","n","g">>),
      File(<<"B",".","P","N","G">>),
      Folder(<<"d",".","p","n","g">>),
      Folder(<<".">>),
      File(<<"n",".","t","x","t">>),
      File(BadgeName),
      File(<<"T","u","f","t","y","-","N","a","m","e",".","P","N","G">>),
      File(<<".","h",".","p","n","g">>),
      File(<<".","p","n","g">>),
      File(LongName) }

ScanListings == UNION { [1 .. n -> ScanEntries] : n \in 0 .. MaxListing }

InitScan ==
    /\ pc = "scan"
    /\ fs_mounted = TRUE
    /\ image_count = 0
    /\ image_list = << >>
    /\ image_index = 0
    /\ rand_seed = << 0, 12345 >>
    /\ loaded = FALSE
    /\ elapsed = 0
    /\ frames = 0
    /\ fnow = 0
    /\ lifegrid = << ZeroGrid, ZeroGrid >>
    /\ change_mask = ZeroGrid
    /\ fb = Clear(BLACK)
    /\ panel = fb
    /\ buttons = NoButtons
    /\ last_exit = "none"
    /\ cool = DEBOUNCE_MS
    /\ tried = FALSE
    /\ rounds = 0
    /\ dir_entries \in ScanListings
    /\ redrawn = {}

\* image_count = scan_images(), pico_dir_read returning dir_entries
ScanCall ==
    /\ pc = "scan"
    /\ image_list' = scan_images(TRUE, dir_entries)
    /\ image_count' = Len(image_list')
    /\ pc' = "scanned"
    /\ UNCHANGED << fs_mounted, dir_entries, image_index, rand_seed, loaded, elapsed,
                    life, surface, buttons, last_exit, cool, tried, rounds >>

NextScan == ScanCall

SpecScan == InitScan /\ [][NextScan]_vars

\* a non-directory entry whose name ends in ".png" whatever the case and is
\* not the reserved name
WantedEntry(info) ==
    /\ info.type # "DIR"
    /\ Len(info.name) >= 4
    /\ StrCaseEq(Tail4(info.name), DotPng)
    /\ ~ StrCaseEq(info.name, BadgeName)

\* the names of the wanted entries of a listing, in listing order, cut at
\* the capacity
WantedNames(listing) ==
    LET kept == SelectSeq(listing, WantedEntry)
    IN  [k \in 1 .. Min(Len(kept), MAX_IMAGES) |-> kept[k].name]

\* C13: catalog build.  For every listing, scan_images stores, in listing
\* order and up to MAX_IMAGES, exactly the names of the non-directory
\* entries that end in ".png" whatever the case and are not the reserved
\* name, each as listed, and returns the number of stored names.
C13_CatalogBuild ==
    pc = "scanned" =>
        /\ image_list = WantedNames(dir_entries)
        /\ image_count = Len(image_list)

\* C14: differential rendering keeps the screen equal to the grid.  After
\* the full redraw on entry and after the partial redraw of every
\* generation, on the frame buffer and on the panel, every cell shows the
\* colour of its state in the buffer just drawn (Alive white, JustDied red,
\* Dead black); and a cell painted by the partial redraw of a generation has
\* changed its state in that generation.
C14_ScreenEqualsGrid ==
    pc = "life" =>
        /\ \A i \in Cells :
              /\ fb[CellPixel(i)] = CellPen(NextBuffer[i])
              /\ panel[CellPixel(i)] = fb[CellPixel(i)]
        /\ CellPen(Alive) = WHITE /\ CellPen(JustDied) = RED /\ CellPen(Dead) = BLACK
        /\ frames > 0 => \A i \in redrawn : NextBuffer[i] # CurrentBuffer[i]

\* C14 witness: a generation after the first that painted some cells and
\* left alone an Alive cell and a Dead interior cell.
C14_Witness ==
    /\ pc = "life" /\ frames > 1
    /\ redrawn # {}
    /\ \E i \in InteriorCells \ redrawn : NextBuffer[i] = Alive
    /\ \E i \in InteriorCells \ redrawn : NextBuffer[i] = Dead
    /\ \E i \in redrawn : NextBuffer[i] = Dead

\* C15: after mark_changes of any generation the mask holds Dead at a cell
\* only when the cell was JustDied in the current buffer and is Dead in the
\* next; a cell Alive in the current buffer is not Dead in the next; and the
\* mask holds no value other than Dead, Alive, JustDied or the sentinel.
C15_MaskDeadOnlyAfterJustDied ==
    /\ \A i \in Cells : change_mask[i] \in { Dead, Alive, JustDied, SENTINEL }
    /\ frames > 0 =>
          \A i \in Cells :
              /\ change_mask[i] = Dead =>
                    (CurrentBuffer[i] = JustDied /\ NextBuffer[i] = Dead)
              /\ CurrentBuffer[i] = Alive => NextBuffer[i] # Dead

\* C15 witness: a generation in which a JustDied cell became Dead (mask
\* Dead) and an Alive cell became JustDied (mask JustDied).
C15_Witness ==
    /\ pc = "life" /\ frames > 1
    /\ \E i \in InteriorCells : change_mask[i] = Dead /\ CurrentBuffer[i] = JustDied
    /\ \E i \in InteriorCells : change_mask[i] = JustDied /\ CurrentBuffer[i] = Alive

\* the Alive cells of a grid
AliveCells(grid) == { i \in Cells : grid[i] = Alive }

\* C16: reset on every GameOfLife entry.  Whenever GameOfLife has been
\* entered and no generation has been computed yet, the generation count is
\* 0, the current buffer is buffer 0, the other buffer is all Dead, and the
\* current buffer holds only Dead and Alive cells, at least 1 and at most
\* INITIAL_DOTS of them Alive, all of these interior cells.
C16_ResetOnEntry ==
    (pc = "life" /\ frames = 0) =>
        /\ fnow = 0
        /\ lifegrid[2] = ZeroGrid
        /\ \A i \in Cells : lifegrid[1][i] \in { Dead, Alive }
        /\ AliveCells(lifegrid[1]) \subseteq InteriorCells
        /\ Cardinality(AliveCells(lifegrid[1])) >= 1
        /\ Cardinality(AliveCells(lifegrid[1])) <= INITIAL_DOTS

\* C16 witness: a second entry of the session, after a run that left
\* JustDied marks in the mask and cells that were not Dead in buffer 1,
\* seeded with fewer cells than dots drawn.
C16_Witness ==
    /\ pc = "life" /\ frames = 0 /\ rounds = 2
    /\ \E i \in Cells : change_mask[i] = JustDied
    /\ Cardinality(AliveCells(lifegrid[1])) < INITIAL_DOTS

(***************************************************************************)
(* The rejection loop on its own: entered with every catalog count from 2  *)
(* to MaxCount, every current index and every seed of DrawSeeds, the       *)
(* values of rand_seed up to SeedHiMax * 65536 + SeedLoMax; the loop takes *)
(* the seed on from there over the whole 32-bit range.                     *)
(***************************************************************************)
MaxCount == 4
SeedHiMax == 3
SeedLoMax == 1023

DrawSeeds == (0 .. SeedHiMax) \X (0 .. SeedLoMax)

InitDraw ==
    /\ pc = "pick"
    /\ fs_mounted = TRUE
    /\ image_count \in 2 .. MaxCount
    /\ image_list = [k \in 1 .. image_count |-> <<"a",".","p","n","g">>]
    /\ image_index \in 0 .. (image_count - 1)
    /\ rand_seed \in DrawSeeds
    /\ loaded = FALSE
    /\ elapsed = 0
    /\ frames = 0
    /\ fnow = 0
    /\ lifegrid = << ZeroGrid, ZeroGrid >>
    /\ change_mask = ZeroGrid
    /\ fb = Clear(BLACK)
    /\ panel = fb
    /\ buttons = NoButtons
    /\ last_exit = "timeout"
    /\ cool = DEBOUNCE_MS
    /\ tried = TRUE
    /\ rounds = 1
    /\ dir_entries = << >>
    /\ redrawn = {}

NextDraw == PickOther

SpecDraw == InitDraw /\ [][NextDraw]_vars /\ WF_vars(PickOther)

\* C17: the rejection loop terminates.  With 2 or more catalog entries,
\* from every current index and every seed, the loop that draws
\* fast_rand() % image_count until the draw differs from the current index
\* is eventually left, for the next slide.
C17_RejectionLoopEnds ==
    (pc = "pick" /\ image_count >= 2) ~> (pc = "show")

\* C17 witness: the loop entered with a catalog of 2, index 1 and seed 891
\* is left with index 0 at its fourteenth draw, thirteen draws rejected.
C17_Witness ==
    /\ pc = "show" /\ image_count = 2 /\ image_index = 0
    /\ rand_seed = << 62208, 54245 >>

\* C18: a dwell timeout advances like button A.  The slideshow poll loop is
\* left for the pick of the next slide in two ways only, by its time
\* condition with no button sampled, or by a sample of A; either way the
\* catalog, the index, the seed, the frame buffer, the panel and the Game of
\* Life state are as they were; the pick that follows yields one next index
\* (another one for 2 or more entries, the same for 1, a pattern index for
\* none) without drawing; and the slide for that index is then drawn by the
\* load-or-pattern path, presented, and the dwell time starts at 0.
C18_TimeoutAdvancesLikeA ==
    [][ /\ (pc = "dwell" /\ elapsed >= DISPLAY_TIME)
            => (pc' = "pick" /\ last_exit' = "timeout" /\ buttons' = buttons)
        /\ (pc = "dwell" /\ elapsed < DISPLAY_TIME /\ buttons'[1])
            => (pc' = "pick" /\ last_exit' = "A")
        /\ (pc = "dwell" /\ pc' = "pick")
            => /\ last_exit' \in { "A", "timeout" }
               /\ << catalog, image_index, rand_seed, loaded, life, surface >>'
                     = << catalog, image_index, rand_seed, loaded, life, surface >>
        /\ (pc = "pick" /\ last_exit \in { "A", "timeout" })
            => /\ << catalog, life, surface >>' = << catalog, life, surface >>
               /\ \/ pc' = "pick" /\ image_index' = image_index
                  \/ /\ pc' = "show"
                     /\ image_count >= 2 =>
                            (image_index' # image_index
                                /\ image_index' \in 0 .. (image_count - 1))
                     /\ image_count = 1 => image_index' = image_index
                     /\ image_count = 0 => image_index' \in 0 .. (PATTERN_COUNT - 1)
        /\ pc = "show"
            => /\ pc' = "dwell"
               /\ elapsed' = 0
               /\ image_index' = image_index
               /\ panel' = fb'
               /\ \E o \in LoadOutcomes :
                     fb' = SlideContent(fs_mounted, image_count, fb, image_index, o)[2]
      ]_vars

\* C18 witness: the next slide of a catalog of 3 picked after a dwell
\* timeout, no button having been sampled pressed.
C18_Witness ==
    /\ pc = "show" /\ last_exit = "timeout" /\ buttons = NoButtons
    /\ image_count = 3 /\ image_index # 0 /\ rounds = 1

\* C19: the slideshow index is always valid.  In every state the count is
\* the number of filled entries of image_list; with a count above 0 the
\* index lies in [0, count), and with a count of 0 it lies in [0, 72).
C19_IndexValid ==
    /\ image_count = Len(image_list)
    /\ image_count > 0 => image_index \in 0 .. (image_count - 1)
    /\ image_count = 0 => image_index \in 0 .. (PATTERN_COUNT - 1)

\* C19 witness: the last entry of a catalog of 3 put up as the second slide.
C19_Witness ==
    /\ pc = "dwell" /\ rounds = 2 /\ tried
    /\ image_count = 3 /\ image_index = 2

\* C20: button priority.  A poll of the slideshow takes exactly one of its
\* four ways: with A sampled pressed it leaves for the pick of the next
\* slide, whatever B and C are, drawing nothing and leaving the Game of Life
\* state alone; with B and not A it puts up the badge; with C and neither A
\* nor B it enters GameOfLife; with none it stays.  The pick after A leads
\* to the next slide only.
C20_ButtonPriority ==
    [][ /\ (pc = "dwell" /\ elapsed < DISPLAY_TIME) =>
              /\ buttons'[1] =>
                    /\ pc' = "pick" /\ last_exit' = "A"
                    /\ << life, surface, rand_seed >>' = << life, surface, rand_seed >>
              /\ (~ buttons'[1] /\ buttons'[2]) =>
                    /\ pc' = "badge"
                    /\ << life, rand_seed >>' = << life, rand_seed >>
              /\ (~ buttons'[1] /\ ~ buttons'[2] /\ buttons'[3]) =>
                    (pc' = "life" /\ frames' = 0)
              /\ buttons' = NoButtons =>
                    (pc' = "dwell" /\ << life, surface >>' = << life, surface >>)
        /\ (pc = "pick" /\ last_exit = "A") =>
              /\ pc' \in { "pick", "show" }
              /\ << life, surface >>' = << life, surface >>
      ]_vars

\* C20 witness: the next slide picked after a poll that sampled A, B and C
\* all pressed.
C20_Witness ==
    /\ pc = "show" /\ last_exit = "A"
    /\ buttons = << TRUE, TRUE, TRUE >>

\* C21: buttons A and B have no effect in GameOfLife.  A pass of the
\* generation loop after which C is not sampled pressed stays in
\* GameOfLife whatever A and B are, with the slideshow index, the catalog
\* and the seed kept and the generation count one higher, as with no button
\* pressed; GameOfLife is left only when C is sampled pressed or the
\* generation budget is used up.
C21_OnlyCLeavesLife ==
    [][ /\ (pc = "life" /\ frames < LIFE_FRAMES /\ ~ buttons'[3]) =>
              /\ pc' = "life"
              /\ frames' = frames + 1
              /\ << catalog, image_index, rand_seed, last_exit >>'
                    = << catalog, image_index, rand_seed, last_exit >>
        /\ (pc = "life" /\ pc' # "life") =>
              /\ buttons'[3] \/ frames >= LIFE_FRAMES
              /\ image_index' = image_index
      ]_vars

\* C21 witness: GameOfLife still running after two or more generations,
\* the last sample having found A and B pressed and C not.
C21_Witness ==
    /\ pc = "life" /\ frames > 1
    /\ buttons = << TRUE, TRUE, FALSE >>

\* C22: order of a generation.  Every pass of the generation loop, the one
\* that ends on a sample of C included, computes the next buffer from the
\* current one, the mask from the current and the newly computed buffer,
\* paints by that mask, presents the painted frame buffer, swaps the buffer
\* roles and increments the count; so GameOfLife is never left with a count
\* below 1, even when C is pressed at every sample.
C22_GenerationBeforeSample ==
    [][ /\ (pc = "life" /\ frames < LIFE_FRAMES) =>
              LET now  == lifegrid[fnow + 1]
                  next == calculate_generation(now, lifegrid[(1 - fnow) + 1])
              IN  /\ fnow' = 1 - fnow
                  /\ lifegrid'[fnow' + 1] = next
                  /\ lifegrid'[fnow + 1] = now
                  /\ change_mask' = mark_changes(now, next)
                  /\ fb' = draw_changes(fb, change_mask')
                  /\ panel' = fb'
                  /\ frames' = frames + 1
        /\ (pc = "life" /\ pc' # "life") => frames' >= 1
        /\ (pc # "life" /\ pc' = "life") => (frames' = 0 /\ LIFE_FRAMES >= 1)
      ]_vars

\* C22 witness: GameOfLife left after exactly one generation, C sampled
\* pressed, the generation having painted cells and been presented.
C22_Witness ==
    /\ pc = "pick" /\ last_exit = "life" /\ buttons[3]
    /\ frames = 1 /\ fnow = 1
    /\ redrawn # {} /\ panel = fb

====
